---- MODULE Spec2Model ----
(***************************************************************************)
(* Model of the HomeScreen recording / upload pipeline of                  *)
(* src/frontend/App.js (lines 127-291 and the record toggle, 321-328).     *)
(*                                                                         *)
(* React state (useState) is the committed state.  Every async function    *)
(* invocation is a task that keeps the values its render closed over.      *)
(* A commit and the effects it schedules (useEffect, lines 135-152) are    *)
(* one step: React flushes the pending effects of a render before it       *)
(* processes any later state update.                                       *)
(***************************************************************************)
EXTENDS Integers, Sequences, FiniteSets, Bags, TLC

\* ---------------------------------------------------------------- bounds
MaxHandles == 2    \* recordings Audio.Recording.createAsync may hand out
MaxTasks   == 2    \* recorder callbacks (presses, timer callbacks) pending at once

\* ---------------------------------------------------------------- values
NULL == 0

\* recording.getURI(): one file per recording handle
getURI(h) == h

\* values a remote call hands back: null, the empty string, a text
Null == [kind |-> "null", of |-> 0]
EmptyText == [kind |-> "empty", of |-> 0]
Text(uri) == [kind |-> "text", of |-> uri]

\* a test for null only, `if (transcription !== null)`
Truthy_NotNull(v) == v.kind # "null"

\* JavaScript truthiness of a call result, `if (transcription)`
Truthy(v) == v.kind = "text"

\* transcribeAudio: response.data.transcription, or null from the catch
TranscribeOutcomes(uri) == {Null, EmptyText, Text(uri)}

\* analyzeAudio: response.data.analysis, or null from the catch
AnalyzeOutcomes(uri) == {Null, Text(uri)}

VARIABLES
  recording,      \* useState(null): the recording handle, or NULL
  isRecording,    \* useState(false)
  transcriptions, \* useState([]): the Display List
  audioQueue,     \* useState([]): URIs waiting for upload
  isProcessing,   \* useState(false): the busy flag
  interval,       \* intervalRef.current and the closure of its callback
  tasks,          \* bag of pending recorder callbacks: where each one waits (pc), the
                  \* recording its stopRecording closed over (rec), and whether
                  \* startRecording follows the stop (restart: the timer callback)
  procs,          \* bag of running processAudioQueue invocations
  sessions,       \* device: recordings created and not yet stopped/unloaded
  nextHandle,     \* device: the next handle createAsync hands out
  appended        \* history: every URI stopRecording enqueued, in order

vars == <<recording, isRecording, transcriptions, audioQueue, isProcessing,
          interval, tasks, procs, sessions, nextHandle,
          appended>>

recorderVars == <<recording, isRecording, interval, tasks, sessions, nextHandle>>

\* ------------------------------------------------------------- helpers
One(x) == SetToBag({x})

Range(s) == {s[i] : i \in 1..Len(s)}

Count(s, x) == Cardinality({i \in 1..Len(s) : s[i] = x})

\* a queue that grows at its head, `[fileUri, ...prevQueue]`
Enqueue_AtHead(q, uri) == <<uri>> \o q

\* setAudioQueue((prevQueue) => [...prevQueue, fileUri])
Enqueue(q, uri) == Append(q, uri)

\* a list that grows at its head, `[record, ...prev]`
AppendRecord_AtHead(list, rec) == <<rec>> \o list

\* setTranscriptions((prev) => [...prev, { text, analysis }])
AppendRecord(list, rec) == Append(list, rec)

\* a guard that forgets the busy flag
CanProcess_IgnoringBusy(q, busy) == Len(q) > 0

\* the guard of the queue effect and of processAudioQueue itself
CanProcess(q, busy) == Len(q) > 0 /\ ~busy

\* const [currentAudio, ...remainingQueue] = audioQueue, then the first call
NewProc(q) ==
  [pc |-> "transcribe", currentAudio |-> Head(q), remainingQueue |-> Tail(q),
   transcription |-> Null]

\* the segmentation-timer effect: clearInterval, then setInterval if isRecording
TimerEffect(isRec, rec) ==
  IF isRec THEN [armed |-> TRUE, rec |-> rec] ELSE [armed |-> FALSE, rec |-> NULL]

\* A commit of the React state followed by the two effects.  qSet says that
\* setAudioQueue was called (a new array: the dependency changed).
Commit(rec, isRec, q, qSet, busy, ps) ==
  /\ recording' = rec
  /\ isRecording' = isRec
  /\ interval' = IF rec # recording \/ isRec # isRecording
                   THEN TimerEffect(isRec, rec) ELSE interval
  /\ audioQueue' = q
  /\ IF (qSet \/ busy # isProcessing) /\ CanProcess(q, busy)
       THEN /\ isProcessing' = TRUE
            /\ procs' = ps (+) One(NewProc(q))
       ELSE /\ isProcessing' = busy
            /\ procs' = ps

Init ==
  /\ recording = NULL
  /\ isRecording = FALSE
  /\ transcriptions = <<>>
  /\ audioQueue = <<>>
  /\ isProcessing = FALSE
  /\ interval = [armed |-> FALSE, rec |-> NULL]
  /\ tasks = EmptyBag
  /\ procs = EmptyBag
  /\ sessions = {}
  /\ nextHandle = 1
  /\ appended = <<>>

\* ------------------------------------------------------------ recorder
\* onPress while the button shows "Iniciar": startRecording up to its first await
UserStartPress ==
  /\ ~isRecording
  /\ BagCardinality(tasks) < MaxTasks
  /\ tasks' = tasks (+) One([pc |-> "perm", rec |-> NULL, restart |-> FALSE])
  /\ UNCHANGED <<recording, isRecording, transcriptions, audioQueue, isProcessing,
                 interval, procs, sessions, nextHandle, appended>>

\* a stop press that also abandons the invocation of processAudioQueue in
\* flight and clears the busy flag
UserStopPress_CancelsUpload ==
  /\ isRecording
  /\ recording # NULL => BagCardinality(tasks) < MaxTasks
  /\ tasks' = IF recording # NULL
                THEN tasks (+) One([pc |-> "stop", rec |-> recording, restart |-> FALSE])
                ELSE tasks
  /\ Commit(recording, FALSE, audioQueue, FALSE, FALSE, EmptyBag)
  /\ UNCHANGED <<transcriptions, sessions, nextHandle, appended>>

\* onPress while the button shows "Parar": setIsRecording(false), then
\* stopRecording up to its await (no await at all when recording is null)
UserStopPress ==
  /\ isRecording
  /\ recording # NULL => BagCardinality(tasks) < MaxTasks
  /\ tasks' = IF recording # NULL
                THEN tasks (+) One([pc |-> "stop", rec |-> recording, restart |-> FALSE])
                ELSE tasks
  /\ Commit(recording, FALSE, audioQueue, FALSE, isProcessing, procs)
  /\ UNCHANGED <<transcriptions, sessions, nextHandle, appended>>

\* a timer callback is still inside its stopRecording
RolloverStopping == \E t \in BagToSet(tasks) : t.pc = "stop" /\ t.restart

\* the setInterval callback: if (recording) { await stopRecording(); ... }
\* The period is 6000 ms and stopAndUnloadAsync is taken to settle within
\* it: a tick never finds the previous callback still inside stopRecording.
TimerFire ==
  /\ ~RolloverStopping
  /\ interval.armed
  /\ interval.rec # NULL
  /\ BagCardinality(tasks) < MaxTasks
  /\ tasks' = tasks (+) One([pc |-> "stop", rec |-> interval.rec, restart |-> TRUE])
  /\ UNCHANGED <<recording, isRecording, transcriptions, audioQueue, isProcessing,
                 interval, procs, sessions, nextHandle, appended>>

\* what is left of a callback once its stopRecording has returned: the
\* timer callback goes on with `await startRecording()`, a press is done
AfterStop(t) ==
  IF t.restart THEN One([pc |-> "perm", rec |-> NULL, restart |-> FALSE])
               ELSE EmptyBag

\* stopAndUnloadAsync resolved: enqueue the URI, setRecording(null)
StopResolve(t) ==
  /\ t.pc = "stop"
  /\ tasks' = (tasks (-) One(t)) (+) AfterStop(t)
  /\ sessions' = sessions \ {t.rec}
  /\ appended' = Enqueue(appended, getURI(t.rec))
  /\ Commit(NULL, isRecording, Enqueue(audioQueue, getURI(t.rec)), TRUE,
            isProcessing, procs)
  /\ UNCHANGED <<transcriptions, nextHandle>>

\* stopAndUnloadAsync threw: caught and logged, no state is set
StopReject(t) ==
  /\ t.pc = "stop"
  /\ tasks' = (tasks (-) One(t)) (+) AfterStop(t)
  /\ UNCHANGED <<recording, isRecording, transcriptions, audioQueue, isProcessing,
                 interval, procs, sessions, nextHandle, appended>>

\* requestPermissionsAsync answered "granted": setAudioModeAsync is called
PermGranted(t) ==
  /\ t.pc = "perm"
  /\ tasks' = (tasks (-) One(t)) (+) One([t EXCEPT !.pc = "mode"])
  /\ UNCHANGED <<recording, isRecording, transcriptions, audioQueue, isProcessing,
                 interval, procs, sessions, nextHandle, appended>>

\* setAudioModeAsync resolved: createAsync is called
ModeResolve(t) ==
  /\ t.pc = "mode"
  /\ tasks' = (tasks (-) One(t)) (+) One([t EXCEPT !.pc = "create"])
  /\ UNCHANGED <<recording, isRecording, transcriptions, audioQueue, isProcessing,
                 interval, procs, sessions, nextHandle, appended>>

\* permission not granted, or requestPermissionsAsync / setAudioModeAsync
\* threw: startRecording ends, nothing is set
PermDenied(t) ==
  /\ t.pc \in {"perm", "mode"}
  /\ tasks' = tasks (-) One(t)
  /\ UNCHANGED <<recording, isRecording, transcriptions, audioQueue, isProcessing,
                 interval, procs, sessions, nextHandle, appended>>

\* createAsync resolved: setRecording(recording), setIsRecording(true)
CreateResolve(t) ==
  /\ t.pc = "create"
  /\ nextHandle <= MaxHandles
  /\ tasks' = tasks (-) One(t)
  /\ sessions' = sessions \cup {nextHandle}
  /\ nextHandle' = nextHandle + 1
  /\ Commit(nextHandle, TRUE, audioQueue, FALSE, isProcessing, procs)
  /\ UNCHANGED <<transcriptions, appended>>

\* createAsync threw: caught and logged
CreateReject(t) ==
  /\ t.pc = "create"
  /\ tasks' = tasks (-) One(t)
  /\ UNCHANGED <<recording, isRecording, transcriptions, audioQueue, isProcessing,
                 interval, procs, sessions, nextHandle, appended>>

\* ----------------------------------------------------------- processor
\* `await transcribeAudio(currentAudio)` settled: analyzeAudio is called
TranscribeSettle(p, v) ==
  /\ p.pc = "transcribe"
  /\ procs' = (procs (-) One(p)) (+) One([p EXCEPT !.pc = "analyze", !.transcription = v])
  /\ UNCHANGED <<recording, isRecording, transcriptions, audioQueue, isProcessing,
                 interval, tasks, sessions, nextHandle, appended>>

\* `await analyzeAudio(currentAudio)` settled: Promise.all of the two values,
\* the record if there is a transcription, then deleteAsync is called
AnalyzeSettle(p, v) ==
  /\ p.pc = "analyze"
  /\ transcriptions' =
       IF Truthy(p.transcription)
         THEN AppendRecord(transcriptions, [text |-> p.transcription, analysis |-> v])
         ELSE transcriptions
  /\ procs' = (procs (-) One(p)) (+) One([p EXCEPT !.pc = "delete"])
  /\ UNCHANGED <<recording, isRecording, audioQueue, isProcessing,
                 interval, tasks, sessions, nextHandle, appended>>

\* a finally block that advances the queue and leaves the busy flag set
Finish_KeepsBusy(p) ==
  Commit(recording, isRecording, p.remainingQueue, TRUE, TRUE, procs (-) One(p))

\* the end of the finally block: setAudioQueue(remainingQueue),
\* setIsProcessing(false), and the effects of that commit
Finish(p) ==
  Commit(recording, isRecording, p.remainingQueue, TRUE, FALSE, procs (-) One(p))

\* deleteAsync resolved
DeleteResolve(p) ==
  /\ p.pc = "delete"
  /\ Finish(p)
  /\ UNCHANGED <<transcriptions, tasks, sessions, nextHandle, appended>>

\* a deleteAsync failure that escapes the finally block: the invocation ends
\* before setAudioQueue and setIsProcessing
DeleteReject_Abort(p) ==
  /\ p.pc = "delete"
  /\ procs' = procs (-) One(p)
  /\ UNCHANGED <<recording, isRecording, transcriptions, audioQueue, isProcessing,
                 interval, tasks, sessions, nextHandle, appended>>

\* deleteAsync threw: caught and logged, the finally block goes on
DeleteReject(p) ==
  /\ p.pc = "delete"
  /\ Finish(p)
  /\ UNCHANGED <<transcriptions, tasks, sessions, nextHandle, appended>>

\* --------------------------------------------------------- display list
\* a clear that also drops the pending segments
ClearRecordings_AndQueue ==
  /\ transcriptions' = <<>>
  /\ audioQueue' = <<>>
  /\ UNCHANGED <<recording, isRecording, isProcessing, interval,
                 tasks, procs, sessions, nextHandle, appended>>

\* clearRecordings: setTranscriptions([])
ClearRecordings ==
  /\ transcriptions' = <<>>
  /\ UNCHANGED <<recording, isRecording, audioQueue, isProcessing, interval,
                 tasks, procs, sessions, nextHandle, appended>>

\* ------------------------------------------------------- specifications
\* the steps in which every device call that settles succeeds
NextReliable ==
  \/ UserStartPress
  \/ UserStopPress
  \/ TimerFire
  \/ \E t \in BagToSet(tasks) : StopResolve(t)
  \/ \E t \in BagToSet(tasks) : PermGranted(t)
  \/ \E t \in BagToSet(tasks) : ModeResolve(t)
  \/ \E t \in BagToSet(tasks) : CreateResolve(t)
  \/ \E p \in BagToSet(procs) : \E v \in TranscribeOutcomes(p.currentAudio) : TranscribeSettle(p, v)
  \/ \E p \in BagToSet(procs) : \E v \in AnalyzeOutcomes(p.currentAudio) : AnalyzeSettle(p, v)
  \/ \E p \in BagToSet(procs) : DeleteResolve(p)
  \/ ClearRecordings

\* the steps in which a device call fails and the catch block runs
DeviceFault ==
  \/ \E t \in BagToSet(tasks) : StopReject(t)
  \/ \E t \in BagToSet(tasks) : PermDenied(t)
  \/ \E t \in BagToSet(tasks) : CreateReject(t)
  \/ \E p \in BagToSet(procs) : DeleteReject(p)

Next == NextReliable \/ DeviceFault

Spec == Init /\ [][Next]_vars

\* One recording toggle: the user presses start once, from IDLE, so no
\* start press ever follows a stop press.  No device call fails.
SingleToggleNext ==
  \/ (nextHandle = 1 /\ tasks = EmptyBag /\ UserStartPress)
  \/ UserStopPress
  \/ TimerFire
  \/ \E t \in BagToSet(tasks) : StopResolve(t)
  \/ \E t \in BagToSet(tasks) : PermGranted(t)
  \/ \E t \in BagToSet(tasks) : ModeResolve(t)
  \/ \E t \in BagToSet(tasks) : CreateResolve(t)
  \/ \E p \in BagToSet(procs) : \E v \in TranscribeOutcomes(p.currentAudio) : TranscribeSettle(p, v)
  \/ \E p \in BagToSet(procs) : \E v \in AnalyzeOutcomes(p.currentAudio) : AnalyzeSettle(p, v)
  \/ \E p \in BagToSet(procs) : DeleteResolve(p)
  \/ ClearRecordings

SpecSingleToggle == Init /\ [][SingleToggleNext]_vars

\* One recording toggle in which device calls may fail: a start press is
\* only made from IDLE while no recording has been created yet.
SingleToggleFaultNext == SingleToggleNext \/ DeviceFault

SpecSingleToggleFault == Init /\ [][SingleToggleFaultNext]_vars

\* a request or the file deletion of the running invocation settles
ProcessorStep ==
  \E p \in BagToSet(procs) :
    \/ \E v \in TranscribeOutcomes(p.currentAudio) : TranscribeSettle(p, v)
    \/ \E v \in AnalyzeOutcomes(p.currentAudio) : AnalyzeSettle(p, v)
    \/ DeleteResolve(p)

\* One recording toggle in which every remote call and every file deletion
\* eventually settles (axios resolves or rejects, line 250 and 272; so does
\* deleteAsync, line 236), whatever the recorder and the user do.
SpecDrain == Init /\ [][SingleToggleNext]_vars /\ WF_vars(ProcessorStep)

\* The scenario of one recording toggle with a single rollover: one start
\* press from IDLE, one timer callback on the first recording that runs to
\* completion, then one stop press on the second recording; no device call
\* of the recorder fails.  The processor and the clear button run freely.
ScenarioNext ==
  \/ (nextHandle = 1 /\ tasks = EmptyBag /\ UserStartPress)
  \/ (recording = 1 /\ tasks = EmptyBag /\ TimerFire)
  \/ (recording = 2 /\ tasks = EmptyBag /\ UserStopPress)
  \/ \E t \in BagToSet(tasks) : StopResolve(t)
  \/ \E t \in BagToSet(tasks) : PermGranted(t)
  \/ \E t \in BagToSet(tasks) : ModeResolve(t)
  \/ \E t \in BagToSet(tasks) : CreateResolve(t)
  \/ \E p \in BagToSet(procs) : \E v \in TranscribeOutcomes(p.currentAudio) : TranscribeSettle(p, v)
  \/ \E p \in BagToSet(procs) : \E v \in AnalyzeOutcomes(p.currentAudio) : AnalyzeSettle(p, v)
  \/ \E p \in BagToSet(procs) : DeleteResolve(p)
  \/ \E p \in BagToSet(procs) : DeleteReject(p)
  \/ ClearRecordings

SpecScenario == Init /\ [][ScenarioNext]_vars

\* ----------------------------------------------------- derived notions
\* the running processAudioQueue invocation (when there is one)
Cur == CHOOSE p \in BagToSet(procs) : TRUE

Busy == procs # EmptyBag

\* the transcribe request of p has been sent and has not settled
TranscribeOutstanding(p) == p.pc = "transcribe"

\* the analyze request of p has been sent
AnalyzeIssued(p) == p.pc \in {"analyze", "delete"}

\* steps of the running invocation
TranscribeStep == Busy /\ Busy' /\ Cur.pc = "transcribe" /\ Cur'.pc # "transcribe"
JoinStep == Busy /\ Busy' /\ Cur.pc = "analyze" /\ Cur'.pc = "delete"
FinishStep == Busy /\ Cur.pc = "delete" /\ (~Busy' \/ Cur'.pc # "delete")

\* no recorder callback is pending
Quiescent == tasks = EmptyBag

\* the segments the records of the Display List belong to
RecordSegs == [i \in 1..Len(transcriptions) |-> transcriptions[i].text.of]

RECURSIVE IsSubseq(_, _)
IsSubseq(s, t) ==
  IF s = <<>> THEN TRUE
  ELSE IF t = <<>> THEN FALSE
  ELSE IF Head(s) = Head(t) THEN IsSubseq(Tail(s), Tail(t))
  ELSE IsSubseq(s, Tail(t))

\* --------------------------------------------------------------- claims

\* C1: single-flight.  In every reachable state at most one invocation of
\* processAudioQueue is between taking the head of the queue and clearing
\* the busy flag, so the calls of the next segment are never issued before
\* the cleanup of the current one has completed.
C1_SingleFlight == BagCardinality(procs) <= 1

\* C1 witness: a segment arrived while another one is in flight
C1_Witness == BagCardinality(procs) = 1 /\ Len(audioQueue) >= 2

\* C2 (as claimed): every URI stopRecording appended is consumed exactly
\* once: whenever the queue loses entries, it loses exactly its head, whose
\* transcribe/analyze calls the running invocation has issued; entries
\* appended while that segment was in flight stay in the queue.
C2_ConsumedExactlyOnce ==
  [][Len(audioQueue') < Len(audioQueue) =>
       /\ Busy
       /\ Cur.currentAudio = Head(audioQueue)
       /\ audioQueue' = Tail(audioQueue)]_vars

\* C3 (as claimed): at most one device recording session is created and not
\* yet stopped/unloaded, at any instant.
C3_SingleSession == Cardinality(sessions) <= 1

\* the user has pressed stop: a recording was started and isRecording is
\* false again (only the stop press sets it to false)
Stopped == nextHandle > 1 /\ ~isRecording

\* C4 (as claimed): after a user stop press, with no later start press, the
\* recorder reaches and stays in IDLE: isRecording stays false, no new
\* recording is started, and once no callback is pending there is no
\* recording handle and the segmentation timer is off.
C4_StopReachesIdle ==
  [][Stopped =>
       /\ ~isRecording'
       /\ nextHandle' = nextHandle
       /\ Quiescent => (recording = NULL /\ ~interval.armed)]_vars

\* C5: FIFO preservation.  The records of the Display List appear in the
\* order in which their segments were appended to the queue, and the
\* segment in flight is index 0 of the queue.
C5_FIFO ==
  /\ IsSubseq(RecordSegs, appended)
  /\ \A p \in BagToSet(procs) : audioQueue # <<>> /\ p.currentAudio = Head(audioQueue)

\* C5 witness: two segments have both yielded a record
C5_Witness ==
  /\ Len(transcriptions) >= 2
  /\ transcriptions[1].text.of # transcriptions[2].text.of

\* C6 (as claimed): when the two calls of a segment have settled, a record
\* is appended if and only if the transcribe call returned a text (any
\* string the service answered, the empty one included).
C6_RecordIffText ==
  [][JoinStep =>
       (Len(transcriptions') = Len(transcriptions) + 1
          <=> Cur.transcription.kind \in {"text", "empty"})]_vars

\* C6 (amended): when the two calls of a segment have settled, exactly one
\* record {text, analysis} is appended if the transcribe call returned a
\* non-empty text (analysis null when analyze failed) and the list is left
\* alone otherwise; analyze is issued whatever transcribe returned, and the
\* queue advances past the segment whatever the two calls returned.
C6_RecordIffNonEmptyText ==
  [][/\ JoinStep =>
          IF Cur.transcription.kind = "text"
            THEN \E a \in AnalyzeOutcomes(Cur.currentAudio) :
                   transcriptions' =
                     Append(transcriptions, [text |-> Cur.transcription, analysis |-> a])
            ELSE transcriptions' = transcriptions
     /\ TranscribeStep => Cur'.pc = "analyze"
     /\ FinishStep => audioQueue' = Cur.remainingQueue
    ]_vars

\* C6 witness: transcribe succeeded, analyze failed, the record is there
C6_Witness ==
  \E i \in 1..Len(transcriptions) :
    transcriptions[i].text.kind = "text" /\ transcriptions[i].analysis = Null

\* C7 (as claimed): the analyze request is issued before the transcribe
\* request has settled: while transcribe is outstanding, analyze has been
\* sent as well.
C7_BothInFlight ==
  \A p \in BagToSet(procs) : TranscribeOutstanding(p) => AnalyzeIssued(p)

\* C8 (as claimed): each segment URI occurs at most once in the queue.
C8_NoDuplicateInQueue ==
  \A i, j \in 1..Len(audioQueue) : i # j => audioQueue[i] # audioQueue[j]

\* C9: clearRecordings empties the Display List and changes neither the
\* queue, the busy flag, the segment in flight nor the recorder; a segment
\* that completes afterwards has its record appended to the list as it is
\* then.
C9_ClearFrame ==
  [][/\ Len(transcriptions') < Len(transcriptions) =>
          /\ transcriptions' = <<>>
          /\ UNCHANGED <<audioQueue, isProcessing, procs, recorderVars>>
     /\ (JoinStep /\ Truthy(Cur.transcription)) =>
          /\ Len(transcriptions') = Len(transcriptions) + 1
          /\ SubSeq(transcriptions', 1, Len(transcriptions)) = transcriptions
          /\ transcriptions'[Len(transcriptions')].text = Cur.transcription
    ]_vars

\* C9 witness: the record of the segment in flight had been appended (its
\* calls have settled, with a text) and the list is empty: it was cleared
\* while the queue is non-empty and the processor busy
C9_Witness ==
  /\ Busy /\ Cur.pc = "delete" /\ Truthy(Cur.transcription)
  /\ transcriptions = <<>>
  /\ isProcessing /\ audioQueue # <<>>

\* C10: start, one rollover run to completion, stop: exactly the segment of
\* the first recording and then the segment of the second one have been
\* appended, however far the processor has drained.
ScenarioDone == nextHandle = 3 /\ ~isRecording /\ Quiescent

C10_TwoSegmentsInOrder ==
  /\ Len(appended) <= 2
  /\ ScenarioDone => appended = <<getURI(1), getURI(2)>>

\* C10 witness: the scenario has run to its end and the queue has drained
C10_Witness == ScenarioDone /\ Len(appended) = 2 /\ audioQueue = <<>> /\ ~isProcessing

\* C11: for every processed segment and every outcome of its remote calls,
\* deletion of its file is attempted exactly once, after the calls have
\* settled: an invocation goes from transcribe to analyze to the deleteAsync
\* call on the same segment and never ends before that call, and the call is
\* not repeated.  When deleteAsync settles, failure included, the segment is
\* removed from the queue and the processor is idle again.
C11_DeleteOnceThenAdvance ==
  [][/\ (Busy /\ Cur.pc = "transcribe") =>
          (Busy' /\ Cur'.currentAudio = Cur.currentAudio
             /\ Cur'.pc \in {"transcribe", "analyze"})
     /\ (Busy /\ Cur.pc = "analyze") =>
          (Busy' /\ Cur'.currentAudio = Cur.currentAudio
             /\ Cur'.pc \in {"analyze", "delete"})
     /\ (Busy /\ Cur.pc = "delete" /\ procs' # procs) => FinishStep
     /\ FinishStep =>
          /\ Len(audioQueue') < Len(audioQueue)
          /\ audioQueue' = Cur.remainingQueue
          /\ ~isProcessing' /\ ~Busy'
    ]_vars

\* C11 witness: the one segment recorded so far has been through the
\* processor (whatever its calls and its deletion answered): it is out of
\* the queue and the processor is idle
C11_Witness ==
  /\ appended = <<getURI(1)>>
  /\ audioQueue = <<>>
  /\ ~isProcessing /\ ~Busy

\* a startRecording call ends in its catch block or on the denied branch:
\* its callback is gone and no recording was created
StartFailedStep ==
  \E t \in BagToSet(tasks) :
    /\ t.pc \in {"perm", "mode", "create"}
    /\ tasks' = tasks (-) One(t)
    /\ nextHandle' = nextHandle

\* C12 (as claimed): when startRecording is invoked with no recording handle
\* and permission is denied or the device fails to create the recording,
\* no session is created: afterwards the handle is null, isRecording is
\* false, the segmentation timer is not armed, and the queue and the
\* Display List are unchanged.
C12_FailedStartStaysIdle ==
  [][(StartFailedStep /\ recording = NULL) =>
       /\ recording' = NULL
       /\ ~isRecording'
       /\ ~interval'.armed
       /\ UNCHANGED <<sessions, audioQueue, transcriptions>>]_vars

\* the single toggle is over: the user has stopped and no recorder callback
\* is pending, so no segment will be enqueued any more
RecorderDone == Stopped /\ Quiescent

\* C13: queue draining is independent of the recorder.  In every state with
\* a non-empty queue an invocation of processAudioQueue is running on its
\* head, whether or not a recording is active; a user stop press changes
\* neither the queue, the busy flag nor the invocation in flight; and, if
\* every remote call and deletion settles, once the recorder has stopped
\* for good the queue is eventually empty with the processor idle.
C13_DrainsWhateverTheRecorder ==
  /\ [](audioQueue # <<>> =>
         (isProcessing /\ Busy /\ Cur.currentAudio = Head(audioQueue)))
  /\ [][(isRecording /\ ~isRecording') =>
          UNCHANGED <<audioQueue, isProcessing, procs>>]_vars
  /\ (RecorderDone ~> (audioQueue = <<>> /\ ~isProcessing /\ ~Busy))

\* C13 witness: the recorder has stopped for good while an upload is still
\* in flight
C13_Witness == RecorderDone /\ ~isRecording /\ Busy /\ audioQueue # <<>>

\* C14 (as claimed): no segment file is leaked.  FileSystem.deleteAsync is
\* only ever called by an invocation of processAudioQueue on the segment it
\* took from the head of the queue, and a URI that has left the queue is
\* never taken again; so every file a stopped recording produced has had
\* deleteAsync invoked on it by the time the system is quiescent only if a
\* URI leaves the queue in no other step than the end of the invocation
\* that has called deleteAsync on it.
C14_NoSegmentLeaked ==
  [][\A u \in Range(audioQueue) :
       u \notin Range(audioQueue') =>
         (Busy /\ Cur.pc = "delete" /\ Cur.currentAudio = u)]_vars

\* C15: the busy flag tracks the processor exactly and is never stuck.
\* isProcessing is true exactly while an invocation of processAudioQueue is
\* between line 211 and the end of its finally block, on every exit path;
\* the flag is only set by an invocation that found a non-empty queue and
\* the flag clear, and that took the head of that queue; while the flag is
\* set, nothing but the end of the running invocation changes the flag or
\* the invocation's segment.
C15_BusyFlagExact ==
  /\ [](isProcessing <=> Busy)
  /\ [][(~isProcessing /\ isProcessing') =>
          /\ ~Busy /\ Busy'
          /\ audioQueue' # <<>>
          /\ Cur' = NewProc(audioQueue')]_vars
  /\ [][(isProcessing /\ ~FinishStep) =>
          /\ isProcessing'
          /\ Busy' /\ Cur'.currentAudio = Cur.currentAudio]_vars

\* C15 witness: a second invocation is running on the second segment: the
\* flag was set, cleared at the end of the first invocation, and set again
C15_Witness ==
  /\ Len(appended) = 2
  /\ isProcessing /\ Busy
  /\ Cur.currentAudio = appended[2]
  /\ audioQueue = <<appended[2]>>

\* the calls of stopAndUnloadAsync on handle h that have not settled yet
StopCalls(h) ==
  BagCardinality([t \in {u \in BagToSet(tasks) : u.pc = "stop" /\ u.rec = h}
                    |-> CopiesIn(t, tasks)])

\* C16 (as claimed): stopAndUnloadAsync is invoked at most once on each
\* recording handle, whatever the interleaving of a user stop press with a
\* timer rollover callback: no handle has two calls outstanding, and a call
\* is only ever outstanding on a handle that is still active (one that no
\* earlier call has stopped and unloaded).
C16_StopOncePerHandle ==
  \A h \in 1..MaxHandles :
    /\ StopCalls(h) <= 1
    /\ StopCalls(h) = 1 => h \in sessions

====
